---- MODULE Spec2Model ----
(***************************************************************************)
(* Model of the frtrss permission engine: Permissions.check and its        *)
(* helpers, in the two revisions the repository holds                      *)
(*   - src/src/permissions.ts   (single pass over the rules)               *)
(*   - src/unnamed/part_015     (deny pass, then allow pass; wildcard      *)
(*                               subject; regular-expression field match)  *)
(* Definitions of the second revision carry the suffix _p15.               *)
(*                                                                         *)
(* JavaScript values are tagged records.  A JavaScript string is a         *)
(* sequence of one-character strings, so that split, prefixes, letter case *)
(* and the regular-expression match are computed and not assumed.  The     *)
(* outcome of a method that can raise is "true", "false" or "throw".       *)
(***************************************************************************)
EXTENDS Integers, Sequences, FiniteSets, TLC

VARIABLES permissions, params, result, callee, builder, dto, decoded

vars == <<permissions, params, result, callee, builder, dto, decoded>>

----------------------------------------------------------------------------
(* JavaScript values *)

Undefined == [t |-> "undefined"]

Null == [t |-> "null"]

Str(s) == [t |-> "string", s |-> s]

Num(n) == [t |-> "number", n |-> n]

Arr(a) == [t |-> "array", a |-> a]

Obj(o) == [t |-> "object", o |-> o]

Bool(b) == [t |-> "boolean", b |-> b]

(* a raised TypeError, as the value of an expression that does not return *)
Thrown == [t |-> "TypeError"]

(* outcomes of the boolean-valued methods that can raise *)
T == "true"

F == "false"

X == "throw"

B3(b) == IF b THEN T ELSE F

(* typeof v === "object" && v !== null; arrays are objects *)
IsObjectLike(v) == v.t \in {"object", "array"}

(* a === b on values: primitives by value, objects and arrays by reference; *)
(* a rule's value and a request's value are never the same reference       *)
StrictEquals(a, b) ==
    /\ a.t = b.t
    /\ CASE a.t = "string" -> a.s = b.s
         [] a.t = "number" -> a.n = b.n
         [] a.t = "boolean" -> a.b = b.b
         [] a.t \in {"undefined", "null"} -> TRUE
         [] OTHER -> FALSE

Digits == <<"0", "1", "2", "3", "4", "5", "6", "7", "8", "9">>

(* the array index a property key denotes (keys "0" .. "9"), or -1 *)
DigitOf(part) ==
    IF Len(part) = 1 /\ \E d \in 1..Len(Digits) : Digits[d] = part[1]
    THEN (CHOOSE d \in 1..Len(Digits) : Digits[d] = part[1]) - 1
    ELSE -1

(* the property key of an array index *)
IndexKey(i) == <<Digits[i + 1]>>

LengthKey == <<"l", "e", "n", "g", "t", "h">>

(* the indexed elements of a string or an array *)
Elements(v) ==
    CASE v.t = "array" -> v.a
      [] v.t = "string" -> [i \in 1..Len(v.s) |-> Str(<<v.s[i]>>)]
      [] OTHER -> <<>>

(* current[part]: property access on own properties (no path of the model *)
(* names an inherited one); raises on null and undefined                  *)
GetProp(current, part) ==
    CASE current.t \in {"null", "undefined"} -> Thrown
      [] current.t = "object" ->
            IF part \in DOMAIN current.o THEN current.o[part] ELSE Undefined
      [] current.t \in {"array", "string"} ->
            IF part = LengthKey THEN Num(Len(Elements(current)))
            ELSE IF DigitOf(part) >= 0 /\ DigitOf(part) < Len(Elements(current))
            THEN Elements(current)[DigitOf(part) + 1]
            ELSE Undefined
      [] OTHER -> Undefined

(* the keys Object.entries enumerates; raises on null and undefined *)
EntryKeys(v) ==
    CASE v.t = "object" -> DOMAIN v.o
      [] v.t \in {"array", "string"} ->
            {IndexKey(i - 1) : i \in 1..Len(Elements(v))}
      [] OTHER -> {}

(* Array.prototype.every / some over outcomes, left to right: the first   *)
(* element that decides or raises ends the scan                           *)
Min(S) == CHOOSE x \in S : \A y \in S : x <= y

Every3(f) ==
    LET bad == {i \in DOMAIN f : f[i] # T}
    IN  IF bad = {} THEN T ELSE f[Min(bad)]

Some3(f) ==
    LET hit == {i \in DOMAIN f : f[i] # F}
    IN  IF hit = {} THEN F ELSE f[Min(hit)]

Not3(o) == IF o = T THEN F ELSE IF o = F THEN T ELSE X

(* the characters the model's strings use, in ascending code-unit order *)
CharOrder ==
    <<" ", "*", ",", "-", ".", "0", "1", "2", "3", "4", "5", "6", "7", "8",
      "9", "D", "O", "R", "T", "[", "]", "a", "b", "c", "d", "e", "f", "g",
      "h", "i", "j", "k", "l", "m", "n", "o", "p", "q", "r", "s", "t", "u",
      "v", "w", "x", "y", "z">>

CharCode(c) == CHOOSE i \in 1..Len(CharOrder) : CharOrder[i] = c

(* s1 < s2 on strings: by code units, a proper prefix first *)
RECURSIVE LexLess(_, _)
LexLess(s1, s2) ==
    IF s2 = <<>> THEN FALSE
    ELSE IF s1 = <<>> THEN TRUE
    ELSE IF s1[1] = s2[1] THEN LexLess(Tail(s1), Tail(s2))
    ELSE CharCode(s1[1]) < CharCode(s2[1])

(* String(n) for an integer *)
RECURSIVE NatStr(_)
NatStr(n) ==
    IF n < 10 THEN <<Digits[n + 1]>>
    ELSE Append(NatStr(n \div 10), Digits[(n % 10) + 1])

NumStr(n) == IF n < 0 THEN <<"-">> \o NatStr(0 - n) ELSE NatStr(n)

ObjectString ==
    <<"[", "o", "b", "j", "e", "c", "t", " ", "O", "b", "j", "e", "c", "t", "]">>

(* String(v); an array joins its elements with ",", null and undefined *)
(* elements as the empty string                                        *)
RECURSIVE ToStr(_)
RECURSIVE JoinFrom(_, _)
JoinFrom(a, i) ==
    IF i > Len(a) THEN <<>>
    ELSE (IF i > 1 THEN <<",">> ELSE <<>>)
         \o (IF a[i].t \in {"null", "undefined"} THEN <<>> ELSE ToStr(a[i]))
         \o JoinFrom(a, i + 1)

ToStr(v) ==
    CASE v.t = "string" -> v.s
      [] v.t = "number" -> NumStr(v.n)
      [] v.t = "boolean" ->
            IF v.b THEN <<"t", "r", "u", "e">> ELSE <<"f", "a", "l", "s", "e">>
      [] v.t = "null" -> <<"n", "u", "l", "l">>
      [] v.t = "undefined" -> <<"u", "n", "d", "e", "f", "i", "n", "e", "d">>
      [] v.t = "array" -> JoinFrom(v.a, 1)
      [] OTHER -> ObjectString

(* ToPrimitive: objects and arrays become their strings *)
ToPrimitive(v) == IF IsObjectLike(v) THEN Str(ToStr(v)) ELSE v

NaN == [t |-> "NaN"]

(* Number(s) for a string of the model: empty is 0, decimal digits are *)
(* their value, anything else is NaN                                   *)
RECURSIVE DigitsValue(_, _)
DigitsValue(str, acc) ==
    IF str = <<>> THEN Num(acc)
    ELSE IF DigitOf(<<str[1]>>) < 0 THEN NaN
    ELSE DigitsValue(Tail(str), 10 * acc + DigitOf(<<str[1]>>))

ToNumber(v) ==
    CASE v.t = "number" -> v
      [] v.t = "null" -> Num(0)
      [] v.t = "boolean" -> Num(IF v.b THEN 1 ELSE 0)
      [] v.t = "string" -> DigitsValue(v.s, 0)
      [] OTHER -> NaN

(* a < b: two strings compare as strings, anything else as numbers, and *)
(* a comparison with NaN is false                                       *)
Less(a, b) ==
    LET pa == ToPrimitive(a)
        pb == ToPrimitive(b)
    IN  IF pa.t = "string" /\ pb.t = "string" THEN LexLess(pa.s, pb.s)
        ELSE LET na == ToNumber(pa)
                 nb == ToNumber(pb)
             IN  na # NaN /\ nb # NaN /\ na.n < nb.n

(* a <= b *)
LessEq(a, b) ==
    LET pa == ToPrimitive(a)
        pb == ToPrimitive(b)
    IN  IF pa.t = "string" /\ pb.t = "string" THEN ~LexLess(pb.s, pa.s)
        ELSE LET na == ToNumber(pa)
                 nb == ToNumber(pb)
             IN  na # NaN /\ nb # NaN /\ na.n <= nb.n

(* path.split(".") on a sequence of characters *)
RECURSIVE SplitFrom(_, _, _, _)
SplitFrom(str, i, cur, acc) ==
    IF i > Len(str) THEN Append(acc, cur)
    ELSE IF str[i] = "." THEN SplitFrom(str, i + 1, <<>>, Append(acc, cur))
    ELSE SplitFrom(str, i + 1, Append(cur, str[i]), acc)

Split(str) == SplitFrom(str, 1, <<>>, <<>>)

----------------------------------------------------------------------------
(* Permissions.getFieldValue: the same text in both revisions *)

RECURSIVE Reduce(_, _, _)
Reduce(parts, i, current) ==
    IF i > Len(parts) THEN current
    ELSE IF current = Thrown THEN Thrown
    ELSE IF current = Undefined THEN Reduce(parts, i + 1, Undefined)
    ELSE IF parts[i] = <<"*">> /\ current.t = "array"
         THEN Reduce(parts, i + 1,
                     IF Len(current.a) > 0 THEN current.a[1] ELSE Undefined)
    ELSE Reduce(parts, i + 1, GetProp(current, parts[i]))

getFieldValue(obj, path) == Reduce(Split(path), 1, obj)

----------------------------------------------------------------------------
(* src/src/permissions.ts *)

(* the callback of value.some in the cases "in" and "nin": an element that *)
(* is an object is compared entry by entry with condition.value[k]         *)
itemMatches(item, cv) ==
    IF IsObjectLike(item)
    THEN IF EntryKeys(item) = {} THEN T
         ELSE IF cv.t \in {"null", "undefined"} THEN X
         ELSE B3(\A k \in EntryKeys(item) :
                    StrictEquals(GetProp(cv, k), GetProp(item, k)))
    ELSE B3(StrictEquals(item, cv))

evaluateCondition(condition, data) ==
    LET value == getFieldValue(data, condition.field)
        cv == condition.value
        op == condition.operator
        anyItem == Some3([i \in 1..Len(value.a) |-> itemMatches(value.a[i], cv)])
    IN  IF value = Thrown THEN X
        ELSE CASE op = "eq" -> B3(StrictEquals(value, cv))
               [] op = "ne" -> B3(~StrictEquals(value, cv))
               [] op = "gt" -> B3(Less(cv, value))
               [] op = "gte" -> B3(LessEq(cv, value))
               [] op = "lt" -> B3(Less(value, cv))
               [] op = "lte" -> B3(LessEq(value, cv))
               [] op = "in" -> IF value.t = "array" THEN anyItem ELSE F
               [] op = "nin" -> IF value.t = "array" THEN Not3(anyItem) ELSE F
               [] op = "size" ->
                     B3(value.t = "array" /\ StrictEquals(Num(Len(value.a)), cv))
               [] OTHER -> F

(* matchesSubject with a template value "*" read as a wildcard *)
matchesSubject_starValue(permissionSubject, requestSubject) ==
    IF permissionSubject.t \in {"null", "undefined"} THEN X
    ELSE IF EntryKeys(permissionSubject) = {} THEN T
    ELSE IF requestSubject.t \in {"null", "undefined"} THEN X
    ELSE B3(\A key \in EntryKeys(permissionSubject) :
               \/ GetProp(permissionSubject, key) = Str(<<"*">>)
               \/ StrictEquals(GetProp(requestSubject, key),
                               GetProp(permissionSubject, key)))

matchesSubject(permissionSubject, requestSubject) ==
    IF permissionSubject.t \in {"null", "undefined"} THEN X
    ELSE IF EntryKeys(permissionSubject) = {} THEN T
    ELSE IF requestSubject.t \in {"null", "undefined"} THEN X
    ELSE B3(\A key \in EntryKeys(permissionSubject) :
               StrictEquals(GetProp(requestSubject, key),
                            GetProp(permissionSubject, key)))

(* the callback of permissionFields.some *)
fieldMatches(field, requestField) ==
    LET fieldParts == Split(field)
        requestParts == Split(requestField)
    IN  \/ field = <<"*">>
        \/ field = requestField
        \/ /\ Len(fieldParts) = Len(requestParts)
           /\ \A index \in 1..Len(fieldParts) :
                 \/ fieldParts[index] = <<"*">>
                 \/ fieldParts[index] = requestParts[index]

matchesField(permissionFields, requestField) ==
    \E i \in 1..Len(permissionFields) :
        fieldMatches(permissionFields[i], requestField)

IsPrefix(s1, s2) ==
    Len(s1) <= Len(s2) /\ SubSeq(s2, 1, Len(s1)) = s1

(* permissionApplies with the action compared by startsWith *)
permissionApplies_prefix(permission, p) ==
    LET ms == matchesSubject(permission.subject, p.subject)
    IN  IF ms # T THEN ms
        ELSE B3(/\ IsPrefix(p.action, permission.action)
                /\ permission.object = p.object
                /\ matchesField(permission.fields, p.field))

(* the guard of the loop body, its conjuncts left to right *)
permissionApplies(permission, p) ==
    LET ms == matchesSubject(permission.subject, p.subject)
    IN  IF ms # T THEN ms
        ELSE B3(/\ permission.action = p.action
                /\ permission.object = p.object
                /\ matchesField(permission.fields, p.field))

(* conditionsMet with some in place of every *)
conditionsMet_some(permission, data) ==
    Some3([j \in 1..Len(permission.conditions) |->
              evaluateCondition(permission.conditions[j], data)])

conditionsMet(permission, data) ==
    Every3([j \in 1..Len(permission.conditions) |->
               evaluateCondition(permission.conditions[j], data)])

(* the for loop of check from rule i on, with the current value of allowed *)
(* a loop in which the last rule that applies decides *)
RECURSIVE checkFrom_lastWins(_, _, _, _)
checkFrom_lastWins(perms, i, allowed, p) ==
    IF i > Len(perms) THEN B3(allowed)
    ELSE LET permission == perms[i]
             ap == permissionApplies(permission, p)
             met == conditionsMet(permission, p.data)
         IN  IF ap = X THEN X
             ELSE IF ap = F THEN checkFrom_lastWins(perms, i + 1, allowed, p)
             ELSE IF met = X THEN X
             ELSE IF met = F THEN checkFrom_lastWins(perms, i + 1, allowed, p)
             ELSE checkFrom_lastWins(perms, i + 1, permission.type = "allow", p)

RECURSIVE checkFrom(_, _, _, _)
checkFrom(perms, i, allowed, p) ==
    IF i > Len(perms) THEN B3(allowed)
    ELSE LET permission == perms[i]
             ap == permissionApplies(permission, p)
             met == conditionsMet(permission, p.data)
         IN  IF ap = X THEN X
             ELSE IF ap = F THEN checkFrom(perms, i + 1, allowed, p)
             ELSE IF met = X THEN X
             ELSE IF met = F THEN checkFrom(perms, i + 1, allowed, p)
             ELSE IF permission.type = "allow"
                  THEN checkFrom(perms, i + 1, TRUE, p)
             ELSE F

check(perms, p) == checkFrom(perms, 1, FALSE, p)

----------------------------------------------------------------------------
(* src/unnamed/part_015 *)

matchesSubject_p15(permissionSubject, requestSubject) ==
    IF permissionSubject = Str(<<"*">>) THEN T
    ELSE matchesSubject(permissionSubject, requestSubject)

matchesObject(permissionObject, requestObject) ==
    permissionObject = requestObject

(* regex.test(requestField) for the expression built from the pattern:   *)
(* "." is the literal dot, "*" is [^.]+ (one or more characters that are *)
(* not a dot), any other character of a pattern is itself, and the       *)
(* expression is anchored at both ends                                   *)
RECURSIVE regexTest(_, _, _, _)
regexTest(pattern, i, str, j) ==
    IF i > Len(pattern) THEN j > Len(str)
    ELSE IF pattern[i] = "*"
         THEN \E k \in 1..(Len(str) - j + 1) :
                 /\ \A n \in j..(j + k - 1) : str[n] # "."
                 /\ regexTest(pattern, i + 1, str, j + k)
    ELSE /\ j <= Len(str)
         /\ str[j] = pattern[i]
         /\ regexTest(pattern, i + 1, str, j + 1)

(* the callback of permissionFields.some *)
fieldMatches_p15(pattern, requestField) ==
    IF pattern = <<"*">> THEN TRUE
    ELSE IF \E n \in 1..Len(pattern) : pattern[n] = "*"
         THEN regexTest(pattern, 1, requestField, 1)
    ELSE pattern = requestField

matchesField_p15(permissionFields, requestField) ==
    \E i \in 1..Len(permissionFields) :
        fieldMatches_p15(permissionFields[i], requestField)

(* the callback of value.some when condition.value is an object: every *)
(* entry of condition.value is compared with item[k]                   *)
itemMatches_p15(item, cv) ==
    IF EntryKeys(cv) = {} THEN T
    ELSE IF item.t \in {"null", "undefined"} THEN X
    ELSE B3(\A k \in EntryKeys(cv) :
               StrictEquals(GetProp(item, k), GetProp(cv, k)))

(* the callback of conditions.every *)
conditionHolds_p15(condition, data) ==
    LET value == getFieldValue(data, condition.field)
        cv == condition.value
        op == condition.operator
        anyItem ==
            IF IsObjectLike(cv)
            THEN Some3([i \in 1..Len(value.a) |-> itemMatches_p15(value.a[i], cv)])
            ELSE B3(\E i \in 1..Len(value.a) : StrictEquals(value.a[i], cv))
    IN  IF value = Thrown THEN X
        ELSE IF value = Undefined THEN F
        ELSE CASE op = "eq" -> B3(StrictEquals(value, cv))
               [] op = "ne" -> B3(~StrictEquals(value, cv))
               [] op = "gt" -> B3(Less(cv, value))
               [] op = "gte" -> B3(LessEq(cv, value))
               [] op = "lt" -> B3(Less(value, cv))
               [] op = "lte" -> B3(LessEq(value, cv))
               [] op = "in" -> IF value.t = "array" THEN anyItem ELSE F
               [] op = "nin" -> IF value.t = "array" THEN Not3(anyItem) ELSE F
               [] OTHER -> F

matchesConditions(conditions, data) ==
    Every3([j \in 1..Len(conditions) |-> conditionHolds_p15(conditions[j], data)])

(* the callback of the two filters of check, its conjuncts left to right *)
ruleSelected_p15(rule, type, p) ==
    IF rule.type # type THEN F
    ELSE LET ms == matchesSubject_p15(rule.subject, p.subject)
         IN  IF ms # T THEN ms
             ELSE B3(/\ rule.action = p.action
                     /\ matchesObject(rule.object, p.object)
                     /\ matchesField_p15(rule.fields, p.field))

(* permissions.filter(...) followed by .some(matchesConditions) *)
anySelectedHolds_p15(perms, type, p) ==
    LET sel == [i \in 1..Len(perms) |-> ruleSelected_p15(perms[i], type, p)]
        picked == SelectSeq(perms, LAMBDA r : ruleSelected_p15(r, type, p) = T)
    IN  IF \E i \in 1..Len(perms) : sel[i] = X THEN X
        ELSE Some3([i \in 1..Len(picked) |->
                      matchesConditions(picked[i].conditions, p.data)])

check_p15(perms, p) ==
    LET denied == anySelectedHolds_p15(perms, "deny", p)
    IN  IF denied = X THEN X
        ELSE IF denied = T THEN F
        ELSE anySelectedHolds_p15(perms, "allow", p)

(* an object-level check that asks for the field "content" *)
checkObject_content(perms, subject, action, object, data) ==
    check_p15(perms, [subject |-> subject, action |-> action,
                      object |-> object,
                      field |-> <<"c", "o", "n", "t", "e", "n", "t">>,
                      data |-> data])

(* Permissions.checkObject *)
checkObject(perms, subject, action, object, data) ==
    check_p15(perms, [subject |-> subject, action |-> action,
                      object |-> object, field |-> <<"*">>, data |-> data])

----------------------------------------------------------------------------
(* The strings of the tests *)

read == <<"r", "e", "a", "d">>

Read == <<"R", "e", "a", "d">>

readwrite == <<"r", "e", "a", "d", "w", "r", "i", "t", "e">>

up == <<"u", "p">>

update == <<"u", "p", "d", "a", "t", "e">>

Document == <<"D", "o", "c", "u", "m", "e", "n", "t">>

document == <<"d", "o", "c", "u", "m", "e", "n", "t">>

Doc == <<"D", "o", "c">>

DocumentType == <<"D", "o", "c", "u", "m", "e", "n", "t", "T", "y", "p", "e">>

role == <<"r", "o", "l", "e">>

id == <<"i", "d">>

editor == <<"e", "d", "i", "t", "o", "r">>

user == <<"u", "s", "e", "r">>

Star == <<"*">>

content == <<"c", "o", "n", "t", "e", "n", "t">>

metadata == <<"m", "e", "t", "a", "d", "a", "t", "a">>

status == <<"s", "t", "a", "t", "u", "s">>

title == <<"t", "i", "t", "l", "e">>

published == <<"p", "u", "b", "l", "i", "s", "h", "e", "d">>

draft == <<"d", "r", "a", "f", "t">>

Dotted(a, b) == a \o <<".">> \o b

----------------------------------------------------------------------------
(* Rules and requests.  A rule is what PermissionBuilder hands to the       *)
(* Permissions constructor (src/src/types.ts, Permission); a request is the *)
(* parameter of check.                                                      *)

Rule(type, subject, action, object, fields, conditions) ==
    [type |-> type, subject |-> subject, action |-> action, object |-> object,
     fields |-> fields, conditions |-> conditions]

Cond(field, operator, value) ==
    [field |-> field, operator |-> operator, value |-> value]

(* PermissionBuilder.allowAll: the subject of the rule is the string "*" *)
allowAllSubject == Str(Star)

(* subject templates of rules, as passed to allow() and deny() *)
RuleSubjects ==
    <<Obj(role :> Str(editor)),
      Obj(id :> Str(<<"1">>) @@ role :> Str(editor)),
      Obj(role :> Str(Star)),
      allowAllSubject>>

(* subjects of requests *)
RequestSubjects ==
    <<Obj(role :> Str(editor)),
      Obj(id :> Str(<<"1">>) @@ role :> Str(editor)),
      Obj(id :> Str(<<"2">>) @@ role :> Str(user)),
      Obj(role :> Str(Star)),
      Obj(id :> Str(<<"1">>))>>

(* the data of requests: status published, status draft, status missing, *)
(* metadata null, metadata missing, metadata a number                    *)
RequestData ==
    <<Obj(metadata :> Obj(status :> Str(published))),
      Obj(metadata :> Obj(status :> Str(draft))),
      Obj(metadata :> Obj(<<>>)),
      Obj(metadata :> Null),
      Obj(<<>>),
      Obj(metadata :> Num(5))>>

statusPath == Dotted(metadata, status)

statusPublished == Cond(statusPath, "eq", Str(published))

statusNotDraft == Cond(statusPath, "ne", Str(draft))

(* one condition on metadata.status for each operator of types.ts *)
OperatorConds ==
    <<statusPublished,
      statusNotDraft,
      Cond(statusPath, "gt", Str(draft)),
      Cond(statusPath, "gte", Str(published)),
      Cond(statusPath, "lt", Str(published)),
      Cond(statusPath, "lte", Str(draft)),
      Cond(statusPath, "in", Str(published)),
      Cond(statusPath, "nin", Str(published)),
      Cond(statusPath, "size", Num(0))>>

(* the condition lists of the one-rule rule sets *)
BasicCondLists ==
    {<<>>, <<statusPublished>>, <<statusPublished, statusNotDraft>>}

AllCondLists ==
    BasicCondLists
        \cup {<<OperatorConds[i]>> : i \in 1..Len(OperatorConds)}
        \cup {<<statusNotDraft, statusPublished>>}

(* one-rule rule sets: every subject, action and field list with the basic *)
(* condition lists, and one rule with every condition list                 *)
GridRules ==
    {Rule("allow", RuleSubjects[i], a, Document, f, cl) :
        i \in 1..Len(RuleSubjects), a \in {read, update},
        f \in {<<content>>, <<Star>>}, cl \in BasicCondLists}
    \cup {Rule("allow", RuleSubjects[1], read, Document, <<content>>, cl) :
            cl \in AllCondLists}

GridRequests ==
    {[subject |-> RequestSubjects[i], action |-> a, object |-> o,
      field |-> f, data |-> RequestData[d]] :
        i \in 1..Len(RequestSubjects), a \in {read, readwrite, up, Read},
        o \in {Document, Doc, DocumentType, document},
        f \in {content, Dotted(metadata, title)}, d \in 1..Len(RequestData)}

(* the rules the many-rule rule sets are made of *)
RulePool ==
    <<Rule("allow", RuleSubjects[1], read, document, <<content>>,
           <<statusPublished>>),
      Rule("deny", RuleSubjects[1], read, document, <<content>>, <<>>),
      Rule("deny", RuleSubjects[1], read, document, <<Star>>,
           <<statusPublished>>),
      Rule("allow", allowAllSubject, read, document, <<Star>>, <<>>),
      Rule("allow", RuleSubjects[1], read, document,
           <<Dotted(metadata, title), content>>, <<statusNotDraft>>),
      Rule("deny", RuleSubjects[2], update, document,
           <<Dotted(metadata, Star)>>, <<statusNotDraft>>)>>

MaxRules == 2

RuleSets ==
    {[i \in DOMAIN ix |-> RulePool[ix[i]]] :
        ix \in UNION {[1..k -> 1..Len(RulePool)] : k \in 0..MaxRules}}

PoolRequests ==
    {[subject |-> RequestSubjects[i], action |-> a, object |-> document,
      field |-> f, data |-> RequestData[d]] :
        i \in {1, 2, 3}, a \in {read, update},
        f \in {content, Dotted(metadata, title)}, d \in 1..Len(RequestData)}

NoRequest ==
    [subject |-> Undefined, action |-> <<>>, object |-> <<>>, field |-> <<>>,
     data |-> Undefined]

----------------------------------------------------------------------------
(* The state: the rule list a Permissions object was constructed with, the *)
(* call in progress on it (the engine is synchronous: one call at a time), *)
(* its parameters and its outcome; the builder objects that share the rule *)
(* list; the DTO last encoded or handed to fromDTO, and the rule list of   *)
(* the Permissions object fromDTO returned.                                *)

(* no builder object is left: the rule list was handed to the constructor *)
NoPartial ==
    [stage |-> "none", type |-> "none", subject |-> Undefined,
     actions |-> <<>>, object |-> <<>>]

NoBuilder ==
    [partial |-> NoPartial, chains |-> <<>>, refs |-> <<>>, built |-> TRUE]

(* fromDTO has returned no Permissions object *)
NoDecoded == [made |-> FALSE, permissions |-> <<>>]

(* a Permissions object constructed directly from a rule list *)
Constructed ==
    /\ builder = NoBuilder
    /\ dto = Undefined
    /\ decoded = NoDecoded

Init ==
    /\ permissions \in RuleSets
    /\ Constructed
    /\ params = NoRequest
    /\ result = "none"
    /\ callee = "none"

(* Permissions.check of src/src/permissions.ts *)
Check(p) ==
    /\ callee = "none"
    /\ callee' = "check"
    /\ params' = p
    /\ result' = check(permissions, p)
    /\ UNCHANGED <<permissions, builder, dto, decoded>>

(* Permissions.check of src/unnamed/part_015 *)
Check_p15(p) ==
    /\ callee = "none"
    /\ callee' = "check_p15"
    /\ params' = p
    /\ result' = check_p15(permissions, p)
    /\ UNCHANGED <<permissions, builder, dto, decoded>>

(* the caller takes the outcome; the object is ready for the next call *)
Return ==
    /\ callee # "none"
    /\ callee' = "none"
    /\ params' = NoRequest
    /\ result' = "none"
    /\ UNCHANGED <<permissions, builder, dto, decoded>>

Next ==
    \/ \E p \in PoolRequests : Check(p)
    \/ \E p \in PoolRequests : Check_p15(p)
    \/ Return

Spec == Init /\ [][Next]_vars

(* Object-level checks: allow and deny rules for one subject, action and *)
(* object whose field lists are the all-fields pattern, specific paths   *)
(* and patterns with a wildcard segment                                  *)
ObjectPool ==
    <<Rule("allow", RuleSubjects[1], read, document, <<Star>>, <<>>),
      Rule("allow", RuleSubjects[1], read, document, <<Star>>,
           <<statusPublished>>),
      Rule("allow", RuleSubjects[1], read, document, <<content>>, <<>>),
      Rule("allow", RuleSubjects[1], read, document,
           <<Dotted(metadata, Star), <<"*", "*">>>>, <<>>),
      Rule("allow", RuleSubjects[1], read, document, <<content, Star>>,
           <<statusNotDraft>>),
      Rule("deny", RuleSubjects[1], read, document, <<content>>, <<>>),
      Rule("deny", RuleSubjects[1], read, document,
           <<Dotted(metadata, Star)>>, <<>>),
      Rule("deny", RuleSubjects[1], read, document,
           <<Dotted(metadata, title), <<"*", "*">>>>, <<statusPublished>>),
      Rule("deny", RuleSubjects[1], read, document, <<Star>>,
           <<statusPublished>>)>>

InitObject ==
    /\ permissions \in
          {[i \in DOMAIN ix |-> ObjectPool[ix[i]]] :
              ix \in UNION {[1..k -> 1..Len(ObjectPool)] : k \in 0..MaxRules}}
    /\ Constructed
    /\ params = NoRequest
    /\ result = "none"
    /\ callee = "none"

(* Permissions.checkObject of src/unnamed/part_015 *)
CheckObject(subject, action, object, data) ==
    /\ callee = "none"
    /\ callee' = "checkObject"
    /\ params' = [NoRequest EXCEPT !.subject = subject, !.action = action,
                                   !.object = object, !.data = data]
    /\ result' = checkObject(permissions, subject, action, object, data)
    /\ UNCHANGED <<permissions, builder, dto, decoded>>

NextObject ==
    \/ \E i \in {1, 3}, a \in {read, update}, d \in {1, 2, 4} :
          CheckObject(RequestSubjects[i], a, document, RequestData[d])
    \/ Return

SpecObject == InitObject /\ [][NextObject]_vars

(* one-rule rule sets against the wide grid of requests *)
InitRule ==
    /\ permissions \in {<<r>> : r \in GridRules}
    /\ Constructed
    /\ params = NoRequest
    /\ result = "none"
    /\ callee = "none"

NextRule ==
    \/ \E p \in GridRequests : Check(p)
    \/ \E p \in GridRequests : Check_p15(p)
    \/ Return

SpecRule == InitRule /\ [][NextRule]_vars

(* Permissions.matchesField, applied to the one rule's field patterns *)
MaxLen == 3

FieldAlphabet == {"a", "b", "*", "."}

FieldStrings == UNION {[1..k -> FieldAlphabet] : k \in 0..MaxLen}

(* field lists of one pattern, and of a fixed first pattern and one more *)
FieldLists ==
    {<<f>> : f \in FieldStrings}
        \cup {<<g, f>> : g \in {<<"b">>, <<"a", ".", "*">>}, f \in FieldStrings}

InitField ==
    /\ permissions \in
          {<<Rule("allow", allowAllSubject, read, Document, fl, <<>>)>> :
              fl \in FieldLists}
    /\ Constructed
    /\ params = NoRequest
    /\ result = "none"
    /\ callee = "none"

(* matchesField of src/src/permissions.ts *)
MatchesField(requestField) ==
    /\ callee = "none"
    /\ callee' = "matchesField"
    /\ params' = [NoRequest EXCEPT !.field = requestField]
    /\ result' = B3(matchesField(permissions[1].fields, requestField))
    /\ UNCHANGED <<permissions, builder, dto, decoded>>

(* matchesField of src/unnamed/part_015 *)
MatchesField_p15(requestField) ==
    /\ callee = "none"
    /\ callee' = "matchesField_p15"
    /\ params' = [NoRequest EXCEPT !.field = requestField]
    /\ result' = B3(matchesField_p15(permissions[1].fields, requestField))
    /\ UNCHANGED <<permissions, builder, dto, decoded>>

NextField ==
    \/ \E f \in FieldStrings : MatchesField(f)
    \/ \E f \in FieldStrings : MatchesField_p15(f)
    \/ Return

SpecField == InitField /\ [][NextField]_vars

----------------------------------------------------------------------------
(* The array operators: one rule with one condition on "tags", against data *)
(* whose "tags" is an array of objects, an array of strings, an array with  *)
(* a null element, a string, an object, or missing                          *)

tags == <<"t", "a", "g", "s">>

name == <<"n", "a", "m", "e">>

featured == <<"f", "e", "a", "t", "u", "r", "e", "d">>

priority == <<"p", "r", "i", "o", "r", "i", "t", "y">>

news == <<"n", "e", "w", "s">>

tech == <<"t", "e", "c", "h">>

ArrayValues ==
    <<Obj(name :> Str(featured)),
      Str(featured),
      Obj(name :> Str(featured) @@ priority :> Num(1))>>

ArrayConds ==
    {Cond(tags, op, ArrayValues[i]) :
        op \in {"in", "nin"}, i \in 1..Len(ArrayValues)}
    \cup {Cond(tags, "size", Num(n)) : n \in {1, 2}}

ArrayRules ==
    {Rule("allow", RuleSubjects[1], read, document, <<content>>, <<c>>) :
        c \in ArrayConds}

ArrayData ==
    <<Obj(tags :> Arr(<<Obj(name :> Str(featured) @@ priority :> Num(1)),
                        Obj(name :> Str(news))>>)),
      Obj(tags :> Arr(<<Obj(name :> Str(news)), Obj(name :> Str(tech))>>)),
      Obj(tags :> Arr(<<Obj(name :> Str(featured))>>)),
      Obj(tags :> Arr(<<>>)),
      Obj(tags :> Arr(<<Str(featured), Str(news)>>)),
      Obj(tags :> Arr(<<Str(news)>>)),
      Obj(tags :> Str(up)),
      Obj(<<>>),
      Obj(tags :> Arr(<<Null, Obj(name :> Str(featured))>>)),
      Obj(tags :> Obj(name :> Str(featured))),
      Obj(tags :> Arr(<<Obj(<<>>), Obj(name :> Str(news))>>))>>

ArrayRequests ==
    {[subject |-> RequestSubjects[i], action |-> read, object |-> document,
      field |-> content, data |-> ArrayData[d]] :
        i \in {1, 3}, d \in 1..Len(ArrayData)}

InitArray ==
    /\ permissions \in {<<r>> : r \in ArrayRules}
    /\ Constructed
    /\ params = NoRequest
    /\ result = "none"
    /\ callee = "none"

NextArray ==
    \/ \E p \in ArrayRequests : Check(p)
    \/ \E p \in ArrayRequests : Check_p15(p)
    \/ Return

SpecArray == InitArray /\ [][NextArray]_vars

----------------------------------------------------------------------------
(* Conditions whose path has a "*" segment, on data that holds an array at *)
(* that position (getFieldValue: current[0]).                              *)

MaxItems == 2

StarPaths == <<tags \o <<".", "*">>, tags \o <<".", "*", ".">> \o name>>

StarElements ==
    {Str(featured), Str(news), Obj(name :> Str(featured)),
     Obj(name :> Str(news)), Null}

StarArrays ==
    UNION {[1..n -> StarElements] : n \in 0..MaxItems}

StarConds ==
    {Cond(StarPaths[i], op, Str(featured)) :
        i \in 1..Len(StarPaths), op \in {"eq", "ne", "lt", "gte", "in"}}

StarRules ==
    {Rule("allow", RuleSubjects[1], read, document, <<content>>, <<c>>) :
        c \in StarConds}

StarData == {Obj(tags :> Arr(a)) : a \in StarArrays}

StarRequests ==
    {[subject |-> RequestSubjects[i], action |-> read, object |-> document,
      field |-> content, data |-> d] :
        i \in {1, 3}, d \in StarData}

InitStar ==
    /\ permissions \in {<<r>> : r \in StarRules}
    /\ Constructed
    /\ params = NoRequest
    /\ result = "none"
    /\ callee = "none"

NextStar ==
    \/ \E p \in StarRequests : Check(p)
    \/ \E p \in StarRequests : Check_p15(p)
    \/ Return

SpecStar == InitStar /\ [][NextStar]_vars

----------------------------------------------------------------------------
(* src/src/builders.ts.  PermissionBuilder owns the array "permissions";    *)
(* build() hands that same array to the Permissions constructor, so the     *)
(* variable permissions is the one array both objects hold.  builder.chains *)
(* are the ConditionBuilder objects created so far; a rule pushed by a      *)
(* ConditionBuilder holds a reference to that object's array "conditions",  *)
(* and builder.refs[i] is the ConditionBuilder whose array rule i holds (0  *)
(* for a rule that came with an array of its own).  builder.partial is the  *)
(* ActionBuilder, ObjectBuilder or FieldBuilder the last call returned.     *)

MaxChains == 1

MaxConds == 2

MaxBuilt == 4

(* PermissionBuilder.addPermission *)
addPermission(perms, permission) == Append(perms, permission)

(* addPermission pushing a rule for the first action only *)
addChainRules_first(perms, chain, i) ==
    IF i > Len(chain.actions) THEN perms
    ELSE addPermission(perms,
             Rule(chain.type, chain.subject, chain.actions[i],
                  chain.object, chain.fields, chain.conditions))

(* ConditionBuilder.addPermission: one rule per action, each holding the *)
(* ConditionBuilder's subject, object, fields and conditions             *)
RECURSIVE addChainRules(_, _, _)
addChainRules(perms, chain, i) ==
    IF i > Len(chain.actions) THEN perms
    ELSE addChainRules(
             addPermission(perms,
                 Rule(chain.type, chain.subject, chain.actions[i],
                      chain.object, chain.fields, chain.conditions)),
             chain, i + 1)

(* every rule keeping the conditions it was pushed with *)
aliased_none(perms, refs, c, conditions) == perms

(* the rules that hold the array "conditions" of ConditionBuilder c see *)
(* what was pushed to it                                                *)
aliased(perms, refs, c, conditions) ==
    [i \in 1..Len(perms) |->
        IF refs[i] = c THEN [perms[i] EXCEPT !.conditions = conditions]
        ELSE perms[i]]

refsAfter(refs, c, n) == refs \o [i \in 1..n |-> c]

Idle == callee = "none"

(* PermissionBuilder.allow, allowAll and deny, and the same methods of *)
(* ConditionBuilder once it has pushed its rules: a new ActionBuilder  *)
ActionBuilder(subject, type) ==
    [stage |-> "action", type |-> type, subject |-> subject,
     actions |-> <<>>, object |-> <<>>]

Allow(subject) ==
    /\ Idle
    /\ builder' = [builder EXCEPT !.partial = ActionBuilder(subject, "allow")]
    /\ UNCHANGED <<permissions, params, result, callee, dto, decoded>>

AllowAll ==
    /\ Idle
    /\ builder' = [builder EXCEPT
                      !.partial = ActionBuilder(allowAllSubject, "allow")]
    /\ UNCHANGED <<permissions, params, result, callee, dto, decoded>>

Deny(subject) ==
    /\ Idle
    /\ builder' = [builder EXCEPT !.partial = ActionBuilder(subject, "deny")]
    /\ UNCHANGED <<permissions, params, result, callee, dto, decoded>>

(* ActionBuilder.to: a single action becomes an array of one *)
To(actions) ==
    /\ Idle
    /\ builder.partial.stage = "action"
    /\ builder' = [builder EXCEPT !.partial.stage = "object",
                                  !.partial.actions = actions]
    /\ UNCHANGED <<permissions, params, result, callee, dto, decoded>>

(* ObjectBuilder.on *)
On(object) ==
    /\ Idle
    /\ builder.partial.stage = "object"
    /\ builder' = [builder EXCEPT !.partial.stage = "field",
                                  !.partial.object = object]
    /\ UNCHANGED <<permissions, params, result, callee, dto, decoded>>

(* FieldBuilder.fields: a new ConditionBuilder with no conditions *)
ConditionBuilder(partial, fields) ==
    [subject |-> partial.subject, type |-> partial.type,
     actions |-> partial.actions, object |-> partial.object,
     fields |-> fields, conditions |-> <<>>]

Fields(fields) ==
    /\ Idle
    /\ builder.partial.stage = "field"
    /\ Len(builder.chains) < MaxChains
    /\ builder' = [builder EXCEPT
                      !.partial = NoPartial,
                      !.chains = Append(@, ConditionBuilder(builder.partial,
                                                            fields))]
    /\ UNCHANGED <<permissions, params, result, callee, dto, decoded>>

(* FieldBuilder.allFields *)
AllFields == Fields(<<Star>>)

(* ConditionBuilder.when: push the condition, then addPermission *)
When(c, condition) ==
    /\ Idle
    /\ c \in 1..Len(builder.chains)
    /\ Len(builder.chains[c].conditions) < MaxConds
    /\ Len(permissions) + Len(builder.chains[c].actions) <= MaxBuilt
    /\ LET chain == [builder.chains[c] EXCEPT
                        !.conditions = Append(@, condition)]
       IN  /\ permissions' =
                 addChainRules(aliased(permissions, builder.refs, c,
                                       chain.conditions), chain, 1)
           /\ builder' = [builder EXCEPT
                  !.chains[c] = chain,
                  !.refs = refsAfter(@, c, Len(chain.actions))]
    /\ UNCHANGED <<params, result, callee, dto, decoded>>

(* ConditionBuilder.allow and deny: addPermission, then a new ActionBuilder *)
ChainStart(c, subject, type) ==
    /\ Idle
    /\ c \in 1..Len(builder.chains)
    /\ Len(permissions) + Len(builder.chains[c].actions) <= MaxBuilt
    /\ permissions' = addChainRules(permissions, builder.chains[c], 1)
    /\ builder' = [builder EXCEPT
           !.refs = refsAfter(@, c, Len(builder.chains[c].actions)),
           !.partial = ActionBuilder(subject, type)]
    /\ UNCHANGED <<params, result, callee, dto, decoded>>

ChainAllow(c, subject) == ChainStart(c, subject, "allow")

ChainDeny(c, subject) == ChainStart(c, subject, "deny")

(* ConditionBuilder.build: addPermission, then PermissionBuilder.build *)
ChainBuild(c) ==
    /\ Idle
    /\ c \in 1..Len(builder.chains)
    /\ Len(permissions) + Len(builder.chains[c].actions) <= MaxBuilt
    /\ permissions' = addChainRules(permissions, builder.chains[c], 1)
    /\ builder' = [builder EXCEPT
           !.refs = refsAfter(@, c, Len(builder.chains[c].actions)),
           !.built = TRUE]
    /\ UNCHANGED <<params, result, callee, dto, decoded>>

(* PermissionBuilder.build: new Permissions(this.permissions) *)
Build ==
    /\ Idle
    /\ builder' = [builder EXCEPT !.built = TRUE]
    /\ UNCHANGED <<permissions, params, result, callee, dto, decoded>>

(* PermissionBuilder.addPermission, called with a rule of the caller's *)
AddPermission(permission) ==
    /\ Idle
    /\ Len(permissions) < MaxBuilt
    /\ permissions' = addPermission(permissions, permission)
    /\ builder' = [builder EXCEPT !.refs = refsAfter(@, 0, 1)]
    /\ UNCHANGED <<params, result, callee, dto, decoded>>

(* new PermissionBuilder() *)
InitBuilder ==
    /\ permissions = <<>>
    /\ builder = [partial |-> NoPartial, chains |-> <<>>, refs |-> <<>>,
                  built |-> FALSE]
    /\ dto = Undefined
    /\ decoded = NoDecoded
    /\ params = NoRequest
    /\ result = "none"
    /\ callee = "none"

(* what the callers of the model pass to the builder *)
BuilderSubjects == {RuleSubjects[1]}

BuilderActions == {<<read>>, <<read, update>>}

(* the condition of the first, second, ... when() of a chain *)
BuilderConds ==
    <<statusPublished, statusNotDraft, Cond(statusPath, "lt", Str(title))>>

BuilderRequests ==
    {[subject |-> RequestSubjects[i], action |-> a, object |-> document,
      field |-> content, data |-> RequestData[d]] :
        i \in {1}, a \in {read}, d \in {1, 2}}

BuilderStep ==
    \/ \E s \in BuilderSubjects : Allow(s)
    \/ AllowAll
    \/ \E s \in BuilderSubjects : Deny(s)
    \/ \E a \in BuilderActions : To(a)
    \/ On(document)
    \/ Fields(<<content>>)
    \/ AllFields
    \/ \E c \in 1..Len(builder.chains) :
          /\ Len(builder.chains[c].conditions) < Len(BuilderConds)
          /\ When(c, BuilderConds[Len(builder.chains[c].conditions) + 1])
    \/ \E c \in 1..MaxChains, s \in BuilderSubjects : ChainAllow(c, s)
    \/ \E c \in 1..MaxChains, s \in BuilderSubjects : ChainDeny(c, s)
    \/ \E c \in 1..MaxChains : ChainBuild(c)
    \/ Build
    \/ AddPermission(RulePool[2])

NextBuilder ==
    \/ BuilderStep
    \/ \E p \in BuilderRequests : builder.built /\ Check(p)
    \/ \E p \in BuilderRequests : builder.built /\ Check_p15(p)
    \/ Return

SpecBuilder == InitBuilder /\ [][NextBuilder]_vars

----------------------------------------------------------------------------
(* The DTO (src/src/types.ts, PermissionsDTO).  A DTO is a JavaScript      *)
(* value; in a rule list the effect and the operators are names and the    *)
(* action, the object and the field patterns are character sequences, so   *)
(* encoding and decoding convert between the two.  A value of a DTO that   *)
(* is not of the expected type is kept in the decoded rule as it is.       *)

VersionKey == <<"v", "e", "r", "s", "i", "o", "n">>

RulesKey == <<"r", "u", "l", "e", "s">>

EffectKey == <<"e", "f", "f", "e", "c", "t">>

SubjectKey == <<"s", "u", "b", "j", "e", "c", "t">>

ActionKey == <<"a", "c", "t", "i", "o", "n">>

ObjectKey == <<"o", "b", "j", "e", "c", "t">>

FieldsKey == <<"f", "i", "e", "l", "d", "s">>

ConditionsKey == <<"c", "o", "n", "d", "i", "t", "i", "o", "n", "s">>

FieldKey == <<"f", "i", "e", "l", "d">>

OperatorKey == <<"o", "p", "e", "r", "a", "t", "o", "r">>

ValueKey == <<"v", "a", "l", "u", "e">>

EffectChars ==
    [allow |-> <<"a", "l", "l", "o", "w">>, deny |-> <<"d", "e", "n", "y">>]

OperatorChars ==
    [eq |-> <<"e", "q">>, ne |-> <<"n", "e">>, gt |-> <<"g", "t">>,
     gte |-> <<"g", "t", "e">>, lt |-> <<"l", "t">>, lte |-> <<"l", "t", "e">>,
     in |-> <<"i", "n">>, nin |-> <<"n", "i", "n">>,
     size |-> <<"s", "i", "z", "e">>]

(* the name a string of a DTO stands for in a table, or the value itself *)
nameOf(v, table) ==
    IF v.t = "string" /\ \E n \in DOMAIN table : table[n] = v.s
    THEN CHOOSE n \in DOMAIN table : table[n] = v.s
    ELSE v

stringOf(v) == IF v.t = "string" THEN v.s ELSE v

fieldsOf(v) ==
    IF v.t = "array" THEN [i \in 1..Len(v.a) |-> stringOf(v.a[i])] ELSE v

(* ToBoolean, as in rule.conditions || [] *)
Truthy(v) ==
    CASE v.t \in {"undefined", "null", "NaN"} -> FALSE
      [] v.t = "boolean" -> v.b
      [] v.t = "number" -> v.n # 0
      [] v.t = "string" -> v.s # <<>>
      [] OTHER -> TRUE

(* key in v *)
HasProp(v, key) ==
    CASE v.t = "object" -> key \in DOMAIN v.o
      [] v.t = "array" -> key = LengthKey \/ key \in EntryKeys(v)
      [] OTHER -> FALSE

(* Permissions.toDTO, the same in permissions.ts and part_014; part_015 *)
(* writes String(permission.object), which is the object for a string  *)
conditionDTO(condition) ==
    Obj((FieldKey :> Str(condition.field))
        @@ (OperatorKey :> Str(OperatorChars[condition.operator]))
        @@ (ValueKey :> condition.value))

(* toDTO writing the condition array also when it is empty *)
ruleDTO_emptyArray(permission) ==
    Obj((EffectKey :> Str(EffectChars[permission.type]))
        @@ (SubjectKey :> permission.subject)
        @@ (ActionKey :> Str(permission.action))
        @@ (ObjectKey :> Str(permission.object))
        @@ (FieldsKey :> Arr([i \in 1..Len(permission.fields) |->
                                Str(permission.fields[i])]))
        @@ (ConditionsKey :>
                Arr([j \in 1..Len(permission.conditions) |->
                        conditionDTO(permission.conditions[j])])))

ruleDTO(permission) ==
    Obj((EffectKey :> Str(EffectChars[permission.type]))
        @@ (SubjectKey :> permission.subject)
        @@ (ActionKey :> Str(permission.action))
        @@ (ObjectKey :> Str(permission.object))
        @@ (FieldsKey :> Arr([i \in 1..Len(permission.fields) |->
                                Str(permission.fields[i])]))
        @@ (ConditionsKey :>
                IF Len(permission.conditions) > 0
                THEN Arr([j \in 1..Len(permission.conditions) |->
                            conditionDTO(permission.conditions[j])])
                ELSE Undefined))

toDTO(perms) ==
    Obj((VersionKey :> Num(1))
        @@ (RulesKey :> Arr([i \in 1..Len(perms) |-> ruleDTO(perms[i])])))

(* the outcome of a function that returns a value or raises *)
Returned(v) == [error |-> "none", value |-> v]

Raised(e) == [error |-> e, value |-> Undefined]

(* decoding that takes every operator for eq *)
conditionOf_eq(c) ==
    Cond(stringOf(GetProp(c, FieldKey)), "eq", GetProp(c, ValueKey))

(* the callback of (rule.conditions || []).map in fromDTO *)
conditionOf(c) ==
    Cond(stringOf(GetProp(c, FieldKey)),
         nameOf(GetProp(c, OperatorKey), OperatorChars),
         GetProp(c, ValueKey))

(* the callback of rules.map with every condition list dropped *)
ruleOf_noConditions(rule) ==
    Rule(nameOf(GetProp(rule, EffectKey), EffectChars),
         GetProp(rule, SubjectKey),
         stringOf(GetProp(rule, ActionKey)),
         stringOf(GetProp(rule, ObjectKey)),
         fieldsOf(GetProp(rule, FieldsKey)),
         <<>>)

(* the callback of rules.map in fromDTO of permissions.ts and part_014 *)
ruleOf(rule) ==
    LET cs == GetProp(rule, ConditionsKey)
    IN  Rule(nameOf(GetProp(rule, EffectKey), EffectChars),
             GetProp(rule, SubjectKey),
             stringOf(GetProp(rule, ActionKey)),
             stringOf(GetProp(rule, ObjectKey)),
             fieldsOf(GetProp(rule, FieldsKey)),
             IF Truthy(cs)
             THEN [j \in 1..Len(cs.a) |-> conditionOf(cs.a[j])]
             ELSE <<>>)

(* the property reads and calls of that callback that raise a TypeError: *)
(* a rule that is null or undefined, conditions that have no map, a      *)
(* condition that is null or undefined                                   *)
ruleRaises(rule) ==
    \/ rule.t \in {"null", "undefined"}
    \/ LET cs == GetProp(rule, ConditionsKey)
       IN  /\ Truthy(cs)
           /\ \/ cs.t # "array"
              \/ \E j \in 1..Len(cs.a) : cs.a[j].t \in {"null", "undefined"}

(* parsedDTO.rules.map(...) *)
rulesOf(parsed) ==
    IF parsed.t \in {"null", "undefined"} THEN Raised("TypeError")
    ELSE LET rules == GetProp(parsed, RulesKey)
         IN  IF rules.t # "array" THEN Raised("TypeError")
             ELSE IF \E i \in 1..Len(rules.a) : ruleRaises(rules.a[i])
                  THEN Raised("TypeError")
             ELSE Returned([i \in 1..Len(rules.a) |-> ruleOf(rules.a[i])])

----------------------------------------------------------------------------
(* Validation.  schema.parse(dto) of the zod schemas is modelled by what  *)
(* it accepts: z.object takes an object that is not an array, z.string a  *)
(* string, z.enum one of the listed strings, z.literal(1) the number 1,   *)
(* z.array an array of accepted elements, z.unknown any value or none,    *)
(* .optional also undefined, and .strict no key outside the schema.       *)

(* the operators of the schema of src/frtrss.prd.md *)
SchemaOperators == {OperatorChars[op] : op \in DOMAIN OperatorChars}

(* the operators of the schema and of the list of src/unnamed/part_011 *)
ValidationOperators ==
    {OperatorChars[op] :
        op \in {"eq", "ne", "in", "nin", "gt", "gte", "lt", "lte"}}

IsStringIn(v, strings) == v.t = "string" /\ v.s \in strings

onlyKeys(v, keys) == DOMAIN v.o \subseteq keys

zodCondition(c, operators, strict) ==
    /\ c.t = "object"
    /\ GetProp(c, FieldKey).t = "string"
    /\ IsStringIn(GetProp(c, OperatorKey), operators)
    /\ strict => onlyKeys(c, {FieldKey, OperatorKey, ValueKey})

zodRule(rule, operators, strict) ==
    /\ rule.t = "object"
    /\ IsStringIn(GetProp(rule, EffectKey),
                  {EffectChars[e] : e \in DOMAIN EffectChars})
    /\ GetProp(rule, ActionKey).t = "string"
    /\ GetProp(rule, ObjectKey).t = "string"
    /\ LET fields == GetProp(rule, FieldsKey)
       IN  /\ fields.t = "array"
           /\ \A i \in 1..Len(fields.a) : fields.a[i].t = "string"
    /\ LET cs == GetProp(rule, ConditionsKey)
       IN  \/ cs = Undefined
           \/ /\ cs.t = "array"
              /\ \A j \in 1..Len(cs.a) : zodCondition(cs.a[j], operators, strict)
    /\ strict => onlyKeys(rule, {EffectKey, SubjectKey, ActionKey, ObjectKey,
                                 FieldsKey, ConditionsKey})

zodParse(candidate, operators, strict) ==
    /\ candidate.t = "object"
    /\ GetProp(candidate, VersionKey) = Num(1)
    /\ LET rules == GetProp(candidate, RulesKey)
       IN  /\ rules.t = "array"
           /\ \A i \in 1..Len(rules.a) : zodRule(rules.a[i], operators, strict)
    /\ strict => onlyKeys(candidate, {VersionKey, RulesKey})

(* the callback of rule.conditions.every in validateWithoutZod *)
conditionValid(c) ==
    /\ IsObjectLike(c)
    /\ GetProp(c, FieldKey).t = "string"
    /\ IsStringIn(GetProp(c, OperatorKey), ValidationOperators)

(* the rule test of validateWithoutZod without the test of the effect *)
ruleValid_anyEffect(rule) ==
    /\ IsObjectLike(rule)
    /\ GetProp(rule, ActionKey).t = "string"
    /\ GetProp(rule, ObjectKey).t = "string"
    /\ LET fields == GetProp(rule, FieldsKey)
       IN  /\ fields.t = "array"
           /\ \A i \in 1..Len(fields.a) : fields.a[i].t = "string"
    /\ LET cs == GetProp(rule, ConditionsKey)
       IN  Truthy(cs) =>
              /\ cs.t = "array"
              /\ \A j \in 1..Len(cs.a) : conditionValid(cs.a[j])

(* the negation of the condition under which validateWithoutZod raises *)
(* for a rule                                                          *)
ruleValid(rule) ==
    /\ IsObjectLike(rule)
    /\ IsStringIn(GetProp(rule, EffectKey),
                  {EffectChars[e] : e \in DOMAIN EffectChars})
    /\ GetProp(rule, ActionKey).t = "string"
    /\ GetProp(rule, ObjectKey).t = "string"
    /\ LET fields == GetProp(rule, FieldsKey)
       IN  /\ fields.t = "array"
           /\ \A i \in 1..Len(fields.a) : fields.a[i].t = "string"
    /\ LET cs == GetProp(rule, ConditionsKey)
       IN  Truthy(cs) =>
              /\ cs.t = "array"
              /\ \A j \in 1..Len(cs.a) : conditionValid(cs.a[j])

validateWithoutZod(candidate) ==
    IF \/ ~IsObjectLike(candidate)
       \/ GetProp(candidate, VersionKey) # Num(1)
       \/ GetProp(candidate, RulesKey).t # "array"
    THEN Raised("Error")
    ELSE IF \E i \in 1..Len(GetProp(candidate, RulesKey).a) :
               ~ruleValid(GetProp(candidate, RulesKey).a[i])
         THEN Raised("Error")
    ELSE Returned(candidate)

(* validateDTO of src/unnamed/part_011, lines 11-58; zod says whether the *)
(* schema can be built (the tests replace the module zod by one that      *)
(* raises)                                                                *)
validateDTO(candidate, shouldValidate, zod) ==
    IF ~shouldValidate THEN Returned(candidate)
    ELSE IF ~zod THEN validateWithoutZod(candidate)
    ELSE IF zodParse(candidate, ValidationOperators, TRUE)
         THEN Returned(candidate)
    ELSE Raised("Error")

(* validateDTO of part_011:111-151: without zod the candidate is returned *)
(* as it is                                                               *)
validateDTO_noFallback(candidate, zod) ==
    IF ~zod THEN Returned(candidate)
    ELSE IF zodParse(candidate, ValidationOperators, TRUE)
         THEN Returned(candidate)
    ELSE Raised("PermissionValidationError")

(* whatever the try block raises leaves as a PermissionValidationError *)
caught(outcome) ==
    IF outcome.error = "none" THEN outcome
    ELSE Raised("PermissionValidationError")

(* Permissions.fromDTO of src/src/permissions.ts *)
fromDTO(candidate) ==
    caught(IF zodParse(candidate, SchemaOperators, FALSE)
           THEN rulesOf(candidate)
           ELSE Raised("ZodError"))

(* Permissions.fromDTO of src/unnamed/part_014 *)
fromDTO_p14(candidate, validate, zod) ==
    LET parsedDTO == validateDTO(candidate, validate, zod)
    IN  caught(IF parsedDTO.error # "none" THEN parsedDTO
               ELSE rulesOf(parsedDTO.value))

(* Permissions.fromDTO of src/unnamed/part_015: the conditions are taken *)
(* as they are                                                           *)
ruleOf_p15(rule) ==
    LET cs == GetProp(rule, ConditionsKey)
    IN  Rule(nameOf(GetProp(rule, EffectKey), EffectChars),
             GetProp(rule, SubjectKey),
             stringOf(GetProp(rule, ActionKey)),
             stringOf(GetProp(rule, ObjectKey)),
             fieldsOf(GetProp(rule, FieldsKey)),
             IF ~Truthy(cs) THEN <<>>
             ELSE IF cs.t # "array" THEN cs
             ELSE [j \in 1..Len(cs.a) |->
                     IF cs.a[j].t = "object" THEN conditionOf(cs.a[j])
                     ELSE cs.a[j]])

ruleFormatValid_p15(rule) ==
    /\ IsObjectLike(rule)
    /\ \A key \in {EffectKey, SubjectKey, ActionKey, ObjectKey, FieldsKey} :
          HasProp(rule, key)
    /\ GetProp(rule, FieldsKey).t = "array"

fromDTO_p15(candidate) ==
    IF \/ ~IsObjectLike(candidate)
       \/ ~HasProp(candidate, VersionKey)
       \/ ~HasProp(candidate, RulesKey)
       \/ GetProp(candidate, VersionKey) # Num(1)
       \/ GetProp(candidate, RulesKey).t # "array"
    THEN Raised("PermissionValidationError")
    ELSE LET rules == GetProp(candidate, RulesKey).a
         IN  IF \E i \in 1..Len(rules) : ~ruleFormatValid_p15(rules[i])
             THEN Raised("PermissionValidationError")
             ELSE Returned([i \in 1..Len(rules) |-> ruleOf_p15(rules[i])])

----------------------------------------------------------------------------
(* Encoding and decoding as operations.  dto is the DTO last returned by *)
(* toDTO (or the candidate at hand), decoded the Permissions object the  *)
(* last successful fromDTO returned.                                     *)

ToDTO ==
    /\ Idle
    /\ builder.built
    /\ callee' = "toDTO"
    /\ params' = NoRequest
    /\ result' = "ok"
    /\ dto' = toDTO(permissions)
    /\ UNCHANGED <<permissions, builder, decoded>>

(* toDTO of the object fromDTO returned *)
ToDTO_decoded ==
    /\ Idle
    /\ decoded.made
    /\ callee' = "toDTO_decoded"
    /\ params' = NoRequest
    /\ result' = "ok"
    /\ dto' = toDTO(decoded.permissions)
    /\ UNCHANGED <<permissions, builder, decoded>>

(* a call of fromDTO returns a new object or raises *)
Decode(decoder, arguments, outcome) ==
    /\ Idle
    /\ dto # Undefined
    /\ callee' = decoder
    /\ params' = arguments
    /\ result' = IF outcome.error = "none" THEN "ok" ELSE outcome.error
    /\ decoded' = IF outcome.error = "none"
                  THEN [made |-> TRUE, permissions |-> outcome.value]
                  ELSE decoded
    /\ UNCHANGED <<permissions, builder, dto>>

FromDTO == Decode("fromDTO", NoRequest, fromDTO(dto))

FromDTO_p14(validate, zod) ==
    Decode("fromDTO_p14", [validate |-> validate, zod |-> zod],
           fromDTO_p14(dto, validate, zod))

FromDTO_p15 == Decode("fromDTO_p15", NoRequest, fromDTO_p15(dto))

(* validateDTO(dto, true), called on its own *)
ValidateDTO(zod) ==
    /\ Idle
    /\ dto # Undefined
    /\ callee' = "validateDTO"
    /\ params' = [validate |-> TRUE, zod |-> zod]
    /\ result' = LET outcome == validateDTO(dto, TRUE, zod)
                 IN  IF outcome.error = "none" THEN "ok" ELSE outcome.error
    /\ UNCHANGED <<permissions, builder, dto, decoded>>

ValidateDTO_noFallback(zod) ==
    /\ Idle
    /\ dto # Undefined
    /\ callee' = "validateDTO_noFallback"
    /\ params' = [validate |-> TRUE, zod |-> zod]
    /\ result' = LET outcome == validateDTO_noFallback(dto, zod)
                 IN  IF outcome.error = "none" THEN "ok" ELSE outcome.error
    /\ UNCHANGED <<permissions, builder, dto, decoded>>

(* check of the object fromDTO returned *)
CheckDecoded(p) ==
    /\ Idle
    /\ decoded.made
    /\ callee' = "check_decoded"
    /\ params' = p
    /\ result' = check(decoded.permissions, p)
    /\ UNCHANGED <<permissions, builder, dto, decoded>>

CheckDecoded_p15(p) ==
    /\ Idle
    /\ decoded.made
    /\ callee' = "check_decoded_p15"
    /\ params' = p
    /\ result' = check_p15(decoded.permissions, p)
    /\ UNCHANGED <<permissions, builder, dto, decoded>>

(* the rule list of new PermissionBuilder().allow(s).to(a).on(o)        *)
(* .fields(f).when(c1) ... .when(cn).build(): every when() and build()  *)
(* pushes the chain's rules, and all of them hold the one conditions    *)
(* array                                                                *)
RECURSIVE chainBuilt(_, _, _)
chainBuilt(perms, chain, conds) ==
    IF conds = <<>> THEN addChainRules(perms, chain, 1)
    ELSE LET pushed == [chain EXCEPT !.conditions = Append(@, Head(conds))]
         IN  chainBuilt(
                 addChainRules(
                     aliased(perms, [i \in 1..Len(perms) |-> 1], 1,
                             pushed.conditions),
                     pushed, 1),
                 pushed, Tail(conds))

Chain(type, subject, actions, fields) ==
    ConditionBuilder([ActionBuilder(subject, type) EXCEPT
                         !.actions = actions, !.object = document],
                     fields)

(* rule sets of one chain, and of an allow chain followed by a deny chain *)
BuiltRuleSets ==
    {chainBuilt(<<>>, Chain(ts[1], ts[2], a, f), cl) :
        ts \in {<<"allow", RuleSubjects[1]>>, <<"allow", allowAllSubject>>,
                <<"deny", RuleSubjects[1]>>},
        a \in BuilderActions, f \in {<<content>>, <<Star>>},
        cl \in BasicCondLists}
    \cup {chainBuilt(<<>>, Chain("allow", RuleSubjects[1], <<read>>,
                                 <<content>>), <<OperatorConds[i]>>) :
            i \in 1..Len(OperatorConds)}
    \cup {chainBuilt(<<>>, Chain("allow", RuleSubjects[1], <<read>>,
                                 <<content>>), cl)
            \o chainBuilt(<<>>, Chain("deny", RuleSubjects[1], <<read>>,
                                      <<Star>>), dl) :
            cl \in BasicCondLists, dl \in BasicCondLists}

CodecRequests ==
    {[subject |-> RequestSubjects[i], action |-> a, object |-> document,
      field |-> content, data |-> RequestData[d]] :
        i \in {1, 3}, a \in {read, update}, d \in {1, 2, 3}}

InitCodec ==
    /\ permissions \in BuiltRuleSets
    /\ Constructed
    /\ params = NoRequest
    /\ result = "none"
    /\ callee = "none"

NextCodec ==
    \/ ToDTO
    \/ ToDTO_decoded
    \/ FromDTO
    \/ \E validate \in BOOLEAN, zod \in BOOLEAN : FromDTO_p14(validate, zod)
    \/ FromDTO_p15
    \/ \E p \in CodecRequests : CheckDecoded(p)
    \/ \E p \in CodecRequests : CheckDecoded_p15(p)
    \/ Return

SpecCodec == InitCodec /\ [][NextCodec]_vars

----------------------------------------------------------------------------
(* Decoding candidates that toDTO did not write (validation.test.ts, *)
(* permissions.test.ts)                                               *)

OperatorOrder == <<"eq", "ne", "gt", "gte", "lt", "lte", "in", "nin", "size">>

invalid == <<"i", "n", "v", "a", "l", "i", "d">>

extra == <<"e", "x", "t", "r", "a">>

(* the entries of a well-formed rule without conditions *)
okRule ==
    (EffectKey :> Str(EffectChars.allow))
        @@ (SubjectKey :> Obj(id :> Str(<<"1">>)))
        @@ (ActionKey :> Str(read))
        @@ (ObjectKey :> Str(document))
        @@ (FieldsKey :> Arr(<<Str(content)>>))

okCondition ==
    (FieldKey :> Str(statusPath))
        @@ (OperatorKey :> Str(OperatorChars.eq))
        @@ (ValueKey :> Str(published))

(* o with the entry key: v added or replaced *)
With(o, key, v) == (key :> v) @@ o

(* o without the entry of key *)
Without(o, key) == [k \in DOMAIN o \ {key} |-> o[k]]

withConditions(v) == Obj(With(okRule, ConditionsKey, v))

(* well-formed rules: no conditions, and one condition of each operator *)
WellFormedRules ==
    <<Obj(okRule)>>
        \o [i \in 1..Len(OperatorOrder) |->
               withConditions(Arr(<<Obj(With(okCondition, OperatorKey,
                   Str(OperatorChars[OperatorOrder[i]])))>>))]

MalformedRules ==
    <<withConditions(Arr(<<Obj(With(okCondition, OperatorKey,
                                    Str(invalid)))>>)),
      withConditions(Arr(<<Obj(With(okCondition, OperatorKey, Num(1)))>>)),
      withConditions(Arr(<<Obj(Without(okCondition, OperatorKey))>>)),
      withConditions(Arr(<<Obj(Without(okCondition, FieldKey))>>)),
      withConditions(Arr(<<Obj(With(okCondition, FieldKey, Num(1)))>>)),
      withConditions(Arr(<<Obj(With(okCondition, extra, Num(1)))>>)),
      withConditions(Arr(<<Null>>)),
      withConditions(Str(invalid)),
      withConditions(Null),
      Obj(With(okRule, EffectKey, Str(invalid))),
      Obj(Without(okRule, EffectKey)),
      Obj(Without(okRule, ActionKey)),
      Obj(With(okRule, ActionKey, Num(1))),
      Obj(Without(okRule, ObjectKey)),
      Obj(With(okRule, ObjectKey, Num(1))),
      Obj(Without(okRule, FieldsKey)),
      Obj(With(okRule, FieldsKey, Str(content))),
      Obj(With(okRule, FieldsKey, Arr(<<Num(1)>>))),
      Obj(With(okRule, extra, Num(1))),
      Obj((EffectKey :> Str(EffectChars.allow))
              @@ (SubjectKey :> Obj(id :> Str(<<"1">>)))),
      Null,
      Str(invalid)>>

envelope(rules) == Obj((VersionKey :> Num(1)) @@ (RulesKey :> Arr(rules)))

(* candidates whose version or rules array is wrong *)
MalformedEnvelopes ==
    <<Null,
      Str(invalid),
      Num(1),
      Obj(<<>>),
      Obj(RulesKey :> Arr(<<>>)),
      Obj(RulesKey :> Arr(<<Obj(okRule)>>)),
      Obj((VersionKey :> Num(2)) @@ (RulesKey :> Arr(<<>>))),
      Obj((VersionKey :> Num(2)) @@ (RulesKey :> Arr(<<Obj(okRule)>>))),
      Obj((VersionKey :> Str(<<"1">>)) @@ (RulesKey :> Arr(<<>>))),
      Obj(VersionKey :> Num(1)),
      Obj((VersionKey :> Num(1)) @@ (RulesKey :> Str(invalid))),
      Obj((VersionKey :> Num(1)) @@ (RulesKey :> Null)),
      Obj((VersionKey :> Num(1)) @@ (RulesKey :> Obj(<<>>)))>>

DtoPool ==
    <<envelope(<<>>)>>
        \o [i \in 1..Len(WellFormedRules) |-> envelope(<<WellFormedRules[i]>>)]
        \o [i \in 1..Len(MalformedRules) |-> envelope(<<MalformedRules[i]>>)]
        \o [i \in 1..Len(MalformedRules) |->
               envelope(<<WellFormedRules[1], MalformedRules[i]>>)]
        \o <<envelope(<<WellFormedRules[1], WellFormedRules[10]>>),
             Obj(With(envelope(<<>>).o, extra, Num(1)))>>
        \o MalformedEnvelopes

InitDecode ==
    /\ permissions = <<>>
    /\ builder = NoBuilder
    /\ \E i \in 1..Len(DtoPool) : dto = DtoPool[i]
    /\ decoded = NoDecoded
    /\ params = NoRequest
    /\ result = "none"
    /\ callee = "none"

NextDecode ==
    \/ FromDTO
    \/ \E validate \in BOOLEAN, zod \in BOOLEAN : FromDTO_p14(validate, zod)
    \/ FromDTO_p15
    \/ \E zod \in BOOLEAN : ValidateDTO(zod)
    \/ \E zod \in BOOLEAN : ValidateDTO_noFallback(zod)
    \/ Return

SpecDecode == InitDecode /\ [][NextDecode]_vars

----------------------------------------------------------------------------
(* One call chain on a new builder, as the tests and the README write *)
(* it: allow(s).to(a).on(o).fields(f).when(c1) ... .build(), then     *)
(* check and toDTO on the object returned.                            *)

(* the condition of the first, second, ... when() of the chain *)
ChainConds ==
    <<statusNotDraft, statusPublished, Cond(statusPath, "lt", Str(title))>>

(* status published, status draft, another status *)
ChainData ==
    <<RequestData[1], RequestData[2],
      Obj(metadata :> Obj(status :> Str(content)))>>

ChainRequests ==
    {[subject |-> RequestSubjects[i], action |-> a, object |-> document,
      field |-> content, data |-> ChainData[d]] :
        i \in {1, 3}, a \in {read, update}, d \in 1..Len(ChainData)}

(* no call of the chain has been made *)
NewBuilder == builder.partial = NoPartial /\ builder.chains = <<>>

(* the calls of the chain, up to build() *)
ChainStep ==
    \/ \E s \in BuilderSubjects : NewBuilder /\ Allow(s)
    \/ NewBuilder /\ AllowAll
    \/ \E s \in BuilderSubjects : NewBuilder /\ Deny(s)
    \/ \E a \in BuilderActions : To(a)
    \/ On(document)
    \/ \E f \in {<<content>>, <<>>} : Fields(f)
    \/ AllFields
    \/ /\ ~builder.built
       /\ Len(builder.chains) = 1
       /\ Len(builder.chains[1].conditions) < Len(ChainConds)
       /\ When(1, ChainConds[Len(builder.chains[1].conditions) + 1])
    \/ ~builder.built /\ ChainBuild(1)

NextChain ==
    \/ ChainStep
    \/ \E p \in ChainRequests : builder.built /\ Check(p)
    \/ \E p \in ChainRequests : builder.built /\ Check_p15(p)
    \/ ToDTO
    \/ FromDTO
    \/ \E validate \in BOOLEAN, zod \in BOOLEAN : FromDTO_p14(validate, zod)
    \/ FromDTO_p15
    \/ Return

SpecChain == InitBuilder /\ [][NextChain]_vars

----------------------------------------------------------------------------
(* Properties *)

Called == callee \in {"check", "check_p15"}

(* the action, object, field and condition tests of a rule, as the called *)
(* revision evaluates them                                                *)
fieldTestPasses(rule, p) ==
    IF callee = "check_p15" THEN matchesField_p15(rule.fields, p.field)
    ELSE matchesField(rule.fields, p.field)

conditionEvaluates(condition, data) ==
    IF callee = "check_p15" THEN conditionHolds_p15(condition, data)
    ELSE evaluateCondition(condition, data)

subjectTestPasses(rule, p) ==
    IF callee = "check_p15" THEN matchesSubject_p15(rule.subject, p.subject) = T
    ELSE matchesSubject(rule.subject, p.subject) = T

allConditionsHold(rule, p) ==
    \A j \in 1..Len(rule.conditions) :
        conditionEvaluates(rule.conditions[j], p.data) = T

(* the rule applies to the request *)
appliesTo(rule, p) ==
    /\ subjectTestPasses(rule, p)
    /\ rule.action = p.action
    /\ rule.object = p.object
    /\ fieldTestPasses(rule, p)
    /\ allConditionsHold(rule, p)

anyApplies(type) ==
    \E i \in 1..Len(permissions) :
        permissions[i].type = type /\ appliesTo(permissions[i], params)

(* the revision that was called, on another rule list *)
checkCalled(perms, p) ==
    IF callee = "check_p15" THEN check_p15(perms, p) ELSE check(perms, p)

PermutationsOf(seq) ==
    {[i \in DOMAIN seq |-> seq[f[i]]] :
        f \in {g \in [DOMAIN seq -> DOMAIN seq] :
                  \A a, b \in DOMAIN seq : g[a] = g[b] => a = b}}

(* C1: whenever a Deny rule applies to the request, check returns false, *)
(* whatever Allow rules also apply and wherever the Deny rule stands.    *)
C1_DenyOverrides ==
    (Called /\ anyApplies("deny")) => result = F

(* C2: check returns true exactly when some Allow rule applies and no Deny *)
(* rule applies, and false otherwise; an empty rule set denies.            *)
C2_AllowUnlessDenied ==
    Called =>
        result = (IF anyApplies("allow") /\ ~anyApplies("deny") THEN T ELSE F)

(* C3: the outcome of check is the same on every permutation of the rules. *)
C3_OrderIndependent ==
    Called =>
        \A perm \in PermutationsOf(permissions) :
            checkCalled(perm, params) = result

(* the rule set is one rule and check was called on it *)
OneRule == Called /\ Len(permissions) = 1

(* the tests of a rule other than the subject test pass *)
otherTestsPass(rule, p) ==
    /\ rule.action = p.action
    /\ rule.object = p.object
    /\ fieldTestPasses(rule, p)
    /\ allConditionsHold(rule, p)

(* C4: a request is granted only if some rule has exactly the request's *)
(* action and exactly the request's object (whole string, same case).   *)
C4_ExactActionObject ==
    (Called /\ result = T) =>
        \E i \in 1..Len(permissions) :
            /\ permissions[i].action = params.action
            /\ permissions[i].object = params.object

(* a rule for "update" is asked for "up", every other test passes, and the *)
(* request is denied                                                       *)
C4_Witness ==
    /\ OneRule
    /\ permissions[1].action = update
    /\ params.action = up
    /\ IsPrefix(params.action, permissions[1].action)
    /\ subjectTestPasses(permissions[1], params)
    /\ permissions[1].object = params.object
    /\ fieldTestPasses(permissions[1], params)
    /\ allConditionsHold(permissions[1], params)
    /\ result = F

(* the segments of a dotted string, from the positions of its dots *)
DotPositions(str) == {i \in 1..Len(str) : str[i] = "."}

SegmentCount(str) == Cardinality(DotPositions(str)) + 1

(* the bounds of segment k: after the (k-1)th dot, before the kth dot *)
SegmentStart(str, k) ==
    IF k = 1 THEN 1
    ELSE 1 + (CHOOSE i \in DotPositions(str) :
                Cardinality({j \in DotPositions(str) : j <= i}) = k - 1)

SegmentEnd(str, k) ==
    IF k = SegmentCount(str) THEN Len(str)
    ELSE (CHOOSE i \in DotPositions(str) :
            Cardinality({j \in DotPositions(str) : j <= i}) = k) - 1

Segment(str, k) == SubSeq(str, SegmentStart(str, k), SegmentEnd(str, k))

patternMatchesPath(pattern, path) ==
    \/ pattern = <<"*">>
    \/ /\ SegmentCount(pattern) = SegmentCount(path)
       /\ \A k \in 1..SegmentCount(pattern) :
             \/ Segment(pattern, k) = <<"*">>
             \/ Segment(pattern, k) = Segment(path, k)

(* C5: a pattern matches a path exactly when it is "*" or both have the   *)
(* same number of dot-separated segments and each pattern segment is "*"  *)
(* or equals the path segment at its position; a rule passes the field    *)
(* test iff one of its patterns matches.                                  *)
C5_FieldPattern ==
    callee \in {"matchesField", "matchesField_p15"} =>
        result = B3(\E i \in 1..Len(permissions[1].fields) :
                        patternMatchesPath(permissions[1].fields[i], params.field))

(* every attribute of the template is on the subject with an equal value *)
templateHolds(template, subject) ==
    \A key \in DOMAIN template.o :
        key \in DOMAIN subject.o /\ subject.o[key] = template.o[key]

C7_AllowAllAnySubject ==
    (OneRule /\ permissions[1].subject = allowAllSubject) =>
        (result = T <=> otherTestsPass(permissions[1], params))

(* a condition of the rule resolves to no value in the data *)
hasUnresolvedCondition(rule, data) ==
    \E j \in 1..Len(rule.conditions) :
        getFieldValue(data, rule.conditions[j].field) = Undefined

(* C8: a condition whose path resolves to no value is false for every *)
(* operator, so a rule carrying it does not apply.                    *)
C8_MissingValueFails ==
    (OneRule /\ hasUnresolvedCondition(permissions[1], params.data)) =>
        /\ result # T
        /\ \A j \in 1..Len(permissions[1].conditions) :
              getFieldValue(params.data, permissions[1].conditions[j].field)
                  = Undefined
              => conditionEvaluates(permissions[1].conditions[j], params.data) = F

(* C9: check returns a boolean and never raises. *)
C9_NeverRaises ==
    Called => result \in {T, F}

(* C10: a rule whose subject, action, object and field tests pass applies *)
(* iff every one of its conditions evaluates true; with no conditions it  *)
(* applies as soon as the four tests pass.                                *)
C10_ConditionsAnd ==
    ( /\ OneRule
      /\ subjectTestPasses(permissions[1], params)
      /\ permissions[1].action = params.action
      /\ permissions[1].object = params.object
      /\ fieldTestPasses(permissions[1], params) ) =>
        (result = T <=> allConditionsHold(permissions[1], params))

(* the four tests pass, the first of two conditions is true and the second *)
(* is false, and the request is denied                                     *)
C10_Witness ==
    /\ OneRule
    /\ subjectTestPasses(permissions[1], params)
    /\ permissions[1].action = params.action
    /\ permissions[1].object = params.object
    /\ fieldTestPasses(permissions[1], params)
    /\ Len(permissions[1].conditions) = 2
    /\ conditionEvaluates(permissions[1].conditions[1], params.data) = T
    /\ conditionEvaluates(permissions[1].conditions[2], params.data) = F
    /\ result = F

(* the one rule has one condition, on the operator op, and its subject, *)
(* action, object and field tests pass                                  *)
oneConditionOn(ops) ==
    /\ OneRule
    /\ Len(permissions[1].conditions) = 1
    /\ permissions[1].conditions[1].operator \in ops
    /\ subjectTestPasses(permissions[1], params)
    /\ permissions[1].action = params.action
    /\ permissions[1].object = params.object
    /\ fieldTestPasses(permissions[1], params)

(* the value the one condition resolves to in the data of the request *)
resolvedValue == getFieldValue(params.data, permissions[1].conditions[1].field)

(* an object element contains every key/value pair of an object expected *)
(* value; a primitive expected value equals the element                  *)
elementMatches(element, expected) ==
    IF expected.t = "object"
    THEN /\ element.t = "object"
         /\ \A k \in DOMAIN expected.o :
               k \in DOMAIN element.o /\ StrictEquals(element.o[k], expected.o[k])
    ELSE StrictEquals(element, expected)

(* the cases the statement speaks of: an object expected value against *)
(* object elements, a primitive expected value against any element     *)
membershipCase(value, expected) ==
    (value.t = "array" /\ expected.t = "object") =>
        \A i \in 1..Len(value.a) : value.a[i].t = "object"

(* C11: on an array, an object element matches an object expected value   *)
(* iff it contains every key/value pair of it, a primitive expected value *)
(* matches by equality; "in" holds iff some element matches, "nin" iff    *)
(* none does; on a value that is not an array both are false.             *)
C11_Membership ==
    ( /\ oneConditionOn({"in", "nin"})
      /\ membershipCase(resolvedValue, permissions[1].conditions[1].value) ) =>
        LET expected == permissions[1].conditions[1].value
            some == \E i \in 1..Len(resolvedValue.a) :
                        elementMatches(resolvedValue.a[i], expected)
        IN  result =
              B3(/\ resolvedValue.t = "array"
                 /\ IF permissions[1].conditions[1].operator = "in"
                    THEN some ELSE ~some)

(* C12: "size" holds iff the value is an array whose length equals the *)
(* expected number exactly; on a value that is not an array it is      *)
(* false.                                                              *)
C12_SizeExact ==
    oneConditionOn({"size"}) =>
        result = B3(/\ resolvedValue.t = "array"
                    /\ Len(resolvedValue.a)
                          = permissions[1].conditions[1].value.n)

(* C13: once build() has returned a Permissions object, no call (check, *)
(* when, allow, deny, addPermission, a second build) adds, removes or   *)
(* alters a rule of the list that object evaluates.                     *)
C13_RuleListFrozen ==
    [][builder.built => permissions' = permissions]_vars

encodedConditions(perms, i) ==
    GetProp(GetProp(dto, RulesKey).a[i], ConditionsKey)

conditionsEncoded(perms) ==
    /\ Len(GetProp(dto, RulesKey).a) = Len(perms)
    /\ \A i \in 1..Len(perms) :
          LET conditions == perms[i].conditions
              encoded == encodedConditions(perms, i)
          IN  IF conditions = <<>> THEN encoded = Undefined
              ELSE /\ encoded.t = "array"
                   /\ Len(encoded.a) = Len(conditions)
                   /\ \A j \in 1..Len(conditions) :
                         /\ GetProp(encoded.a[j], FieldKey)
                                = Str(conditions[j].field)
                         /\ GetProp(encoded.a[j], OperatorKey)
                                = Str(OperatorChars[conditions[j].operator])
                         /\ GetProp(encoded.a[j], ValueKey)
                                = conditions[j].value

(* C16: toDTO leaves conditions undefined for a rule without conditions *)
(* and writes the full condition list otherwise; a rule decoded from a  *)
(* DTO rule whose conditions are undefined has an empty condition list. *)
C16_ConditionsEncoding ==
    /\ callee = "toDTO" => conditionsEncoded(permissions)
    /\ callee = "toDTO_decoded" => conditionsEncoded(decoded.permissions)
    /\ callee \in {"fromDTO", "fromDTO_p14", "fromDTO_p15"} /\ result = "ok"
          => \A i \in 1..Len(decoded.permissions) :
                encodedConditions(decoded.permissions, i) = Undefined
                    => decoded.permissions[i].conditions = <<>>

(* a DTO with one rule whose conditions are undefined and one with a *)
(* condition list has been decoded                                    *)
C16_Witness ==
    /\ callee = "fromDTO"
    /\ result = "ok"
    /\ dto = toDTO(permissions)
    /\ \E i, k \in 1..Len(permissions) :
          /\ permissions[i].conditions = <<>>
          /\ encodedConditions(permissions, i) = Undefined
          /\ decoded.permissions[i].conditions = <<>>
          /\ Len(permissions[k].conditions) = 2
          /\ Len(encodedConditions(permissions, k).a) = 2

Decoders == {"fromDTO", "fromDTO_p14", "fromDTO_p15"}

(* the version is missing or not 1, or there is no rules array *)
badEnvelope(candidate) ==
    ~ /\ candidate.t = "object"
      /\ GetProp(candidate, VersionKey) = Num(1)
      /\ GetProp(candidate, RulesKey).t = "array"

(* C17: fromDTO raises PermissionValidationError for a DTO whose version *)
(* is missing or not 1 or that has no rules array, with validate true or *)
(* false.                                                                 *)
C17_EnvelopeRejected ==
    callee \in Decoders /\ badEnvelope(dto)
        => result = "PermissionValidationError"

(* a rule malformed in one of the ways validation names *)
listedMalformation(rule) ==
    \/ GetProp(rule, EffectKey)
           \notin {Str(EffectChars.allow), Str(EffectChars.deny)}
    \/ GetProp(rule, ActionKey).t # "string"
    \/ GetProp(rule, ObjectKey).t # "string"
    \/ LET fields == GetProp(rule, FieldsKey)
       IN  \/ fields.t # "array"
           \/ \E k \in 1..Len(fields.a) : fields.a[k].t # "string"
    \/ LET conditions == GetProp(rule, ConditionsKey)
       IN  /\ conditions.t = "array"
           /\ \E j \in 1..Len(conditions.a) :
                 LET c == conditions.a[j]
                 IN  /\ c.t = "object"
                     /\ \/ FieldKey \notin DOMAIN c.o
                        \/ GetProp(c, OperatorKey)
                               \notin {Str(OperatorChars[op]) :
                                          op \in DOMAIN OperatorChars}

someRuleMalformed(candidate) ==
    /\ ~badEnvelope(candidate)
    /\ \E i \in 1..Len(GetProp(candidate, RulesKey).a) :
          LET rule == GetProp(candidate, RulesKey).a[i]
          IN  rule.t = "object" /\ listedMalformation(rule)

(* C18: with validate=true, fromDTO raises PermissionValidationError when *)
(* a rule has an effect other than allow or deny, a missing or non-string *)
(* action or object, fields that are not an array of strings, or a        *)
(* condition with a missing field or an unknown operator.                 *)
C18_MalformedRuleRejected ==
    callee = "fromDTO_p14" /\ params.validate /\ someRuleMalformed(dto)
        => result = "PermissionValidationError"

(* the fallback validator has rejected a rule whose effect is invalid *)
C18_Witness ==
    /\ callee = "fromDTO_p14"
    /\ params.validate
    /\ ~params.zod
    /\ dto = envelope(<<Obj(With(okRule, EffectKey, Str(invalid)))>>)
    /\ result = "PermissionValidationError"

(* a DTO with one well-formed rule holding one condition *)
oneConditionDTO(candidate) ==
    \E i \in 2..Len(WellFormedRules) :
        candidate = envelope(<<WellFormedRules[i]>>)

(* C19: validation accepts a well-formed DTO whose condition uses any of *)
(* the nine operators, size included.                                    *)
C19_NineOperatorsAccepted ==
    callee \in {"validateDTO", "fromDTO_p14"} /\ params.validate
        /\ oneConditionDTO(dto)
        => result = "ok"

(* C20: with validate=false fromDTO does not raise for a DTO that has *)
(* version 1 and a rules array, whatever its rules are.                *)
C20_MalformedRulesAccepted ==
    callee = "fromDTO_p14" /\ ~params.validate /\ ~badEnvelope(dto)
        => result = "ok"

(* C21: validation accepts and rejects the same candidates with the zod *)
(* schema and without zod, and without zod it still performs the        *)
(* structural checks.                                                   *)
C21_ValidatorsAgree ==
    /\ callee = "validateDTO"
          => (result = "ok")
                 = (validateDTO(dto, TRUE, ~params.zod).error = "none")
    /\ callee = "validateDTO_noFallback"
          => (result = "ok")
                 = (validateDTO_noFallback(dto, ~params.zod).error = "none")

(* the rules ConditionBuilder c has pushed *)
rulesOfChain(c) == {i \in 1..Len(permissions) : builder.refs[i] = c}

(* the rule the chain stands for with one of its actions *)
chainRule(chain, action) ==
    Rule(chain.type, chain.subject, action, chain.object, chain.fields,
         chain.conditions)

listed(chain, action) == \E k \in 1..Len(chain.actions) : chain.actions[k] = action

(* every rule of the built set comes from ConditionBuilder c *)
onlyChain(c) ==
    /\ builder.built
    /\ c \in 1..Len(builder.chains)
    /\ permissions # <<>>
    /\ \A i \in 1..Len(permissions) : builder.refs[i] = c

(* C22: to([a1, ..., an]) gives one rule per listed action, each with the *)
(* chain's effect, subject, object, fields and conditions; the built set  *)
(* grants a listed action under the chain's terms and no other action.    *)
C22_ActionsExpanded ==
    /\ builder.built =>
          \A c \in 1..Len(builder.chains) :
              LET chain == builder.chains[c]
              IN  rulesOfChain(c) # {} =>
                    /\ \A i \in rulesOfChain(c) :
                          /\ listed(chain, permissions[i].action)
                          /\ permissions[i]
                                 = chainRule(chain, permissions[i].action)
                    /\ \A k \in 1..Len(chain.actions) :
                          \E i \in rulesOfChain(c) :
                              permissions[i].action = chain.actions[k]
    /\ \A c \in 1..Len(builder.chains) :
          Called /\ onlyChain(c) =>
              LET chain == builder.chains[c]
              IN  result = IF listed(chain, params.action)
                           THEN checkCalled(
                                    <<chainRule(chain, params.action)>>,
                                    params)
                           ELSE F

(* the set built from to([read, update]) with one condition has granted *)
(* update, and holds rules for read and for update                       *)
C22_Witness ==
    /\ Called
    /\ onlyChain(1)
    /\ builder.chains[1].actions = <<read, update>>
    /\ Len(builder.chains[1].conditions) = 1
    /\ builder.chains[1].type = "allow"
    /\ params.action = update
    /\ result = T
    /\ \E i, k \in 1..Len(permissions) :
          permissions[i].action = read /\ permissions[k].action = update

(* C23: allow(s).to(a).on(o).fields(f).when(c).build() with one action *)
(* gives a rule set of exactly one rule: toDTO().rules has length 1 and *)
(* its rule has effect allow, subject s, action a, object o, fields f   *)
(* and conditions [c].                                                  *)
C23_SingleRule ==
    callee = "toDTO" /\ onlyChain(1)
        /\ builder.chains[1].type = "allow"
        /\ Len(builder.chains[1].actions) = 1
        /\ Len(builder.chains[1].conditions) = 1
        => LET rules == GetProp(dto, RulesKey).a
               chain == builder.chains[1]
           IN  /\ Len(rules) = 1
               /\ GetProp(rules[1], EffectKey) = Str(EffectChars.allow)
               /\ GetProp(rules[1], SubjectKey) = chain.subject
               /\ GetProp(rules[1], ActionKey) = Str(chain.actions[1])
               /\ GetProp(rules[1], ObjectKey) = Str(chain.object)
               /\ Len(GetProp(rules[1], FieldsKey).a) = Len(chain.fields)
               /\ Len(GetProp(rules[1], ConditionsKey).a) = 1

(* C24: the conditions of several when() calls on one chain are combined *)
(* with AND: after build() every rule the chain pushed carries all of    *)
(* the chain's conditions, a rule of the chain applies to a request only *)
(* when every one of them holds, and an allow chain grants only then.    *)
C24_WhenChainedAnd ==
    LET chain == builder.chains[1]
        allHold == \A j \in 1..Len(chain.conditions) :
                      conditionEvaluates(chain.conditions[j], params.data) = T
    IN  /\ builder.built /\ Len(builder.chains) = 1
              => \A i \in rulesOfChain(1) :
                    permissions[i].conditions = chain.conditions
        /\ Called /\ onlyChain(1)
              => /\ \A i \in rulesOfChain(1) :
                       appliesTo(permissions[i], params) => allHold
                 /\ result = T => allHold

(* a chain with two when() calls has refused a request on which the *)
(* first condition holds and the second does not                    *)
C24_Witness ==
    /\ callee = "check"
    /\ onlyChain(1)
    /\ builder.chains[1].type = "allow"
    /\ Len(builder.chains[1].conditions) = 2
    /\ Len(permissions) = 3
    /\ evaluateCondition(builder.chains[1].conditions[1], params.data) = T
    /\ evaluateCondition(builder.chains[1].conditions[2], params.data) = F
    /\ matchesSubject(builder.chains[1].subject, params.subject) = T
    /\ listed(builder.chains[1], params.action)
    /\ result = F

(* the request the inner check of checkObject receives *)
objectRequest == [params EXCEPT !.field = Star]

allFieldsAllow(rule) ==
    rule.type = "allow" /\ \E k \in 1..Len(rule.fields) : rule.fields[k] = Star

specificDeny(rule) ==
    rule.type = "deny" /\ \A k \in 1..Len(rule.fields) : rule.fields[k] # Star

(* an Allow rule with the all-fields pattern applies to the request of *)
(* checkObject                                                         *)
allFieldsAllowApplies ==
    \E i \in 1..Len(permissions) :
        /\ allFieldsAllow(permissions[i])
        /\ ruleSelected_p15(permissions[i], "allow", objectRequest) = T
        /\ matchesConditions(permissions[i].conditions, params.data) = T

(* C30: a Deny rule none of whose field patterns is "*" never affects   *)
(* checkObject: checkObject returns what it returns without such rules, *)
(* and returns true whenever an Allow rule with the all-fields pattern  *)
(* applies and every Deny rule of the set is of that kind.              *)
C30_SpecificDenyIgnored ==
    callee = "checkObject" =>
        /\ result = checkObject(
                        SelectSeq(permissions, LAMBDA r : ~specificDeny(r)),
                        params.subject, params.action, params.object,
                        params.data)
        /\ (/\ allFieldsAllowApplies
            /\ \A i \in 1..Len(permissions) :
                  permissions[i].type = "deny" => specificDeny(permissions[i]))
              => result = T

(* a rule of the candidate has a condition whose operator is none of the *)
(* nine names                                                            *)
hasUnknownOperator(candidate) ==
    /\ ~badEnvelope(candidate)
    /\ \E i \in 1..Len(GetProp(candidate, RulesKey).a) :
          LET rule == GetProp(candidate, RulesKey).a[i]
              conditions == GetProp(rule, ConditionsKey)
          IN  /\ rule.t = "object"
              /\ conditions.t = "array"
              /\ \E j \in 1..Len(conditions.a) :
                    /\ conditions.a[j].t = "object"
                    /\ GetProp(conditions.a[j], OperatorKey)
                           \notin {Str(OperatorChars[op]) :
                                      op \in DOMAIN OperatorChars}

(* C26: fromDTO rejects a DTO that holds a condition with an operator *)
(* other than eq, ne, gt, gte, lt, lte, in, nin, size, so no rule set  *)
(* it returns holds such a condition.                                  *)
C26_KnownOperatorsOnly ==
    callee \in Decoders /\ hasUnknownOperator(dto)
        => result = "PermissionValidationError"

(* C27: every rule of a rule set the builder built or fromDTO returned *)
(* has at least one field pattern.                                     *)
C27_FieldsNeverEmpty ==
    /\ builder.built =>
          \A i \in 1..Len(permissions) : Len(permissions[i].fields) >= 1
    /\ callee \in Decoders /\ result = "ok" =>
          \A i \in 1..Len(decoded.permissions) :
              Len(decoded.permissions[i].fields) >= 1

(* the array the data of a request holds under "tags" *)
tagsOf(data) == GetProp(data, tags).a

(* two data values that differ at most in array elements at index 1 or *)
(* higher: both arrays have a first element, and it is the same        *)
sameFirstElement(d1, d2) ==
    /\ Len(tagsOf(d1)) >= 1
    /\ Len(tagsOf(d2)) >= 1
    /\ tagsOf(d1)[1] = tagsOf(d2)[1]

(* the outcome of the call made, had the request carried other data *)
outcomeOn(data) ==
    IF callee = "check" THEN check(permissions, [params EXCEPT !.data = data])
    ELSE check_p15(permissions, [params EXCEPT !.data = data])

(* C28: a condition on a path with a "*" segment over an array is decided *)
(* by the first element only: data that differs in elements at index 1 or *)
(* higher gives the same outcome, and an empty array gives false.         *)
C28_StarFirstElement ==
    callee \in {"check", "check_p15"} =>
        /\ \A d \in StarData :
              sameFirstElement(params.data, d) => outcomeOn(d) = result
        /\ tagsOf(params.data) = <<>> => result = F

(* the outcome of the call made, had the object held the rule list perms *)
outcomeWith(perms) ==
    IF callee = "check" THEN check(perms, params) ELSE check_p15(perms, params)

(* C29: appending an Allow rule never turns true into false, appending a *)
(* Deny rule never turns false into true, and appending a copy of a rule *)
(* already present changes no outcome.                                   *)
C29_AppendMonotone ==
    callee \in {"check", "check_p15"} =>
        \A k \in 1..Len(RulePool) :
            LET r == RulePool[k]
                after == outcomeWith(Append(permissions, r))
            IN  /\ r.type = "allow" /\ result = T => after # F
                /\ r.type = "deny" /\ result = F => after # T
                /\ (\E i \in 1..Len(permissions) : permissions[i] = r)
                      => after = result

(* a granted request that an appended Deny rule turns into a denial, on a *)
(* rule list in which an appended Allow rule would be a copy              *)
C29_Witness ==
    /\ callee \in {"check", "check_p15"}
    /\ result = T
    /\ \E k \in 1..Len(RulePool) :
          /\ RulePool[k].type = "deny"
          /\ outcomeWith(Append(permissions, RulePool[k])) = F
    /\ \E k \in 1..Len(RulePool), i \in 1..Len(permissions) :
          RulePool[k].type = "allow" /\ permissions[i] = RulePool[k]

====
